---- MODULE Spec2Model ----
(***************************************************************************)
(* A model of the 2D rigid-body engine of src/src/physics.ts (namespace    *)
(* physics): the world's three body collections, the constructors, the     *)
(* membership operations, joints, and worldStep with its integrator, joint *)
(* solver, collision passes and stability tracker.                         *)
(*                                                                         *)
(* Numbers.  The program computes in IEEE doubles.  Here a number is a     *)
(* fixed-point integer: the value v is held as v * Q, products and         *)
(* quotients are rounded toward zero, and the three special values of the  *)
(* doubles that the code can produce (NaN, +Infinity, -Infinity) are kept  *)
(* as three reserved integers with the arithmetic of the doubles.  Ids,    *)
(* indices and the shape type are plain integers.                          *)
(*                                                                         *)
(* Objects.  A Body is a JavaScript object that the caller and the world's *)
(* lists share by reference.  The heap of bodies is the function `bodies`  *)
(* from ids to records, and the three lists hold ids; a body that was      *)
(* created and never added, or was removed, is still in `bodies`.          *)
(***************************************************************************)
EXTENDS Integers, Sequences, FiniteSets, TLC

(***************************************************************************)
(* Bounds of the model                                                     *)
(***************************************************************************)
\* fixed-point denominator: the value v is represented by v * Q
Q == 100
\* most bodies ever created in one world
MaxBodies == 3
\* most entries one of the three lists may hold
MaxListLen == 2
\* most joints in the world
MaxJoints == 2
\* most worldStep calls in one behaviour
MaxSteps == 2
\* most public calls in one behaviour, createWorld not counted
MaxCalls == 6

(***************************************************************************)
(* Program constants                                                       *)
(***************************************************************************)
CIRCLE == 0
RECTANGLE == 1
\* for (let k = 9; k--;)
MaxPasses == 9

VARIABLES
    bodies,          \* heap: id -> Body, every body ever created
    dynamicBodies,   \* World.dynamicBodies, a list of ids
    staticBodies,    \* World.staticBodies
    disabledBodies,  \* World.disabledBodies
    nextId,          \* World.nextId
    joints,          \* World.joints
    gravity,         \* World.gravity
    lastOp,          \* history: the last public call and its arguments
    collisions,      \* the list the last worldStep returned
    resolveLog,      \* history: the resolveCollision calls of the last worldStep
    passLog,         \* history: resolved collisions per pass of the last worldStep
    passThroughLog,  \* history: the pass-through contacts of the last worldStep
    pairLog,         \* history: the pairs the inner loop of the last worldStep took up
    jointLog,        \* history: the joints taken up in the last worldStep
    steps,           \* history: number of worldStep calls so far
    calls            \* history: number of public calls so far

vars == <<bodies, dynamicBodies, staticBodies, disabledBodies, nextId, joints,
          gravity, lastOp, collisions, resolveLog, passLog, passThroughLog, pairLog,
          jointLog, steps, calls>>

(***************************************************************************)
(* Numbers                                                                 *)
(***************************************************************************)
PInf == 2^30
NInf == -(2^30)
NaN == 2^30 + 1

IsFinite(a) == a # NaN /\ a # PInf /\ a # NInf

\* integer quotient rounded toward zero, b # 0
TDiv(a, b) ==
    IF b > 0
    THEN (IF a >= 0 THEN a \div b ELSE -((-a) \div b))
    ELSE (IF a >= 0 THEN -(a \div (-b)) ELSE (-a) \div (-b))

SignOf(a) == IF a > 0 THEN 1 ELSE IF a < 0 THEN -1 ELSE 0

Neg(a) ==
    IF a = NaN THEN NaN
    ELSE IF a = PInf THEN NInf
    ELSE IF a = NInf THEN PInf
    ELSE -a

Add(a, b) ==
    IF a = NaN \/ b = NaN THEN NaN
    ELSE IF a = PInf THEN (IF b = NInf THEN NaN ELSE PInf)
    ELSE IF a = NInf THEN (IF b = PInf THEN NaN ELSE NInf)
    ELSE IF ~IsFinite(b) THEN b
    ELSE a + b

Sub(a, b) == Add(a, Neg(b))

Mul(a, b) ==
    IF a = NaN \/ b = NaN THEN NaN
    ELSE IF ~IsFinite(a) \/ ~IsFinite(b)
         THEN (IF a = 0 \/ b = 0 THEN NaN
               ELSE IF SignOf(a) * SignOf(b) > 0 THEN PInf ELSE NInf)
    ELSE TDiv(a * b, Q)

Div(a, b) ==
    IF a = NaN \/ b = NaN THEN NaN
    ELSE IF ~IsFinite(a)
         THEN (IF ~IsFinite(b) THEN NaN
               ELSE IF SignOf(a) * (IF b < 0 THEN -1 ELSE 1) > 0 THEN PInf ELSE NInf)
    ELSE IF ~IsFinite(b) THEN 0
    ELSE IF b = 0
         THEN (IF a = 0 THEN NaN ELSE IF a > 0 THEN PInf ELSE NInf)
    ELSE TDiv(a * Q, b)

\* comparisons of doubles: every comparison with NaN is false
Lt(a, b) == a # NaN /\ b # NaN /\ a < b
Le(a, b) == a # NaN /\ b # NaN /\ a <= b
Gt(a, b) == Lt(b, a)
Ge(a, b) == Le(b, a)
\* a === b and a !== b on numbers
NumEq(a, b) == a # NaN /\ b # NaN /\ a = b
NumNe(a, b) == ~NumEq(a, b)
\* the truthiness of a number: 0 and NaN are falsy
Truthy(a) == a # 0 /\ a # NaN

\* Math.abs
Abs(a) == IF a = NaN THEN NaN ELSE IF a = NInf THEN PInf ELSE IF a < 0 THEN -a ELSE a
\* Math.max, Math.min
Max(a, b) == IF a = NaN \/ b = NaN THEN NaN ELSE IF a >= b THEN a ELSE b
Min(a, b) == IF a = NaN \/ b = NaN THEN NaN ELSE IF a <= b THEN a ELSE b
\* Math.floor
Floor(a) == IF ~IsFinite(a) THEN a ELSE (a \div Q) * Q

\* the integer square root of n >= 0 by bisection on lo..hi
RECURSIVE ISqrt(_, _, _)
ISqrt(n, lo, hi) ==
    IF lo >= hi THEN lo
    ELSE LET mid == (lo + hi + 1) \div 2
         IN IF mid * mid <= n THEN ISqrt(n, mid, hi) ELSE ISqrt(n, lo, mid - 1)

\* x ** .5 and Math.sqrt
Sqrt(a) ==
    IF a = NaN \/ a = NInf THEN NaN
    ELSE IF a = PInf THEN PInf
    ELSE IF a < 0 THEN NaN
    ELSE ISqrt(a * Q, 0, 46340)

\* n as a number, and the number n / d
Num(n) == n * Q
Frac(n, d) == TDiv(n * Q, d)

\* Math.cos and Math.sin, by their Taylor polynomials (the angles of one step
\* are small); exact at 0
Cos(a) ==
    IF ~IsFinite(a) THEN NaN
    ELSE LET a2 == Mul(a, a)
         IN Num(1) - TDiv(a2, 2) + TDiv(Mul(a2, a2), 24)
Sin(a) ==
    IF ~IsFinite(a) THEN NaN
    ELSE LET a2 == Mul(a, a)
             a3 == Mul(a2, a)
         IN a - TDiv(a3, 6) + TDiv(Mul(a3, a2), 120)

(***************************************************************************)
(* Vectors                                                                 *)
(***************************************************************************)
newVec2(x, y) == [x |-> x, y |-> y]
scaleVec2(v, n) == newVec2(Mul(v.x, n), Mul(v.y, n))
addVec2(v, w) == newVec2(Add(v.x, w.x), Add(v.y, w.y))
subtractVec2(v, w) == addVec2(v, scaleVec2(w, Num(-1)))
dotProduct(v, w) == Add(Mul(v.x, w.x), Mul(v.y, w.y))
crossProduct(v, w) == Sub(Mul(v.x, w.y), Mul(v.y, w.x))
lengthVec2(v) == Sqrt(dotProduct(v, v))
\* 1 / (lengthVec2(v) || 1)
normalize(v) ==
    LET len == lengthVec2(v)
    IN scaleVec2(v, Div(Num(1), IF Truthy(len) THEN len ELSE Num(1)))
rotateVec2(v, center, angle) ==
    LET x == Sub(v.x, center.x)
        y == Sub(v.y, center.y)
    IN newVec2(Add(Sub(Mul(x, Cos(angle)), Mul(y, Sin(angle))), center.x),
               Add(Add(Mul(x, Sin(angle)), Mul(y, Cos(angle))), center.y))

(***************************************************************************)
(* Bodies                                                                  *)
(***************************************************************************)
\* Number.MAX_SAFE_INTEGER (2^53 - 1) and 2^53, out of the range of the
\* model's numbers and kept as two values of their own: doubles are 1 apart
\* below 2^53 and 2 apart above it
MaxSafeInteger == 2^29
TwoTo53 == 2^29 + 1

\* vertices[i] and faceNormals[i] of the source are at index i + 1 here
Idx(i) == (i % 4) + 1

calcBoundingBox(body) ==
    IF body.type = CIRCLE
    THEN [body EXCEPT !.boundingBox = newVec2(body.bounds, body.bounds)]
    ELSE LET ext(k, bb) == newVec2(
                 Max(bb.x, Abs(Sub(body.center.x, body.vertices[k].x))),
                 Max(bb.y, Abs(Sub(body.center.y, body.vertices[k].y))))
         IN [body EXCEPT !.boundingBox =
                 ext(4, ext(3, ext(2, ext(1, newVec2(0, 0)))))]

computeRectNormals(shape) ==
    [shape EXCEPT !.faceNormals =
        [k \in 1..4 |->
            normalize(subtractVec2(shape.vertices[Idx(k)], shape.vertices[Idx(k + 1)]))]]

calculateInertia(type, mass, bounds, width, height) ==
    IF type = RECTANGLE
    THEN (IF Gt(mass, 0)
          THEN Div(Num(1),
                   Div(Mul(mass, Add(Mul(width, width), Mul(height, height))), Num(12)))
          ELSE 0)
    ELSE (IF Gt(mass, 0)
          THEN Div(Mul(mass, Mul(bounds, bounds)), Num(12))
          ELSE 0)

\* the body createRigidBody returns; it is put in none of the world's lists
createRigidBody(id, grav, center, mass, friction, restitution, type, bounds, width, height) ==
    LET body == [
            id |-> id,
            type |-> type,
            center |-> center,
            averageCenter |-> newVec2(center.x, center.y),
            friction |-> friction,
            restitution |-> restitution,
            mass |-> IF Truthy(mass) THEN Div(Num(1), mass) ELSE 0,
            velocity |-> newVec2(0, 0),
            acceleration |-> IF Truthy(mass) THEN grav ELSE newVec2(0, 0),
            angle |-> 0,
            averageAngle |-> 0,
            angularVelocity |-> 0,
            angularAcceleration |-> 0,
            bounds |-> bounds,
            width |-> width,
            height |-> height,
            inertia |-> calculateInertia(type, mass, bounds, width, height),
            faceNormals |-> << >>,
            vertices |-> <<
                newVec2(Sub(center.x, TDiv(width, 2)), Sub(center.y, TDiv(height, 2))),
                newVec2(Add(center.x, TDiv(width, 2)), Sub(center.y, TDiv(height, 2))),
                newVec2(Add(center.x, TDiv(width, 2)), Add(center.y, TDiv(height, 2))),
                newVec2(Sub(center.x, TDiv(width, 2)), Add(center.y, TDiv(height, 2))) >>,
            boundingBox |-> newVec2(0, 0),
            pinned |-> FALSE,
            restingTime |-> IF mass = 0 THEN MaxSafeInteger ELSE 0,
            static |-> (mass = 0),
            permeability |-> 0 ]
        boxed == calcBoundingBox(body)
    IN IF type # 0 THEN computeRectNormals(boxed) ELSE boxed

\* _moveBody without its early returns: every move is a forced move
moveBodyAlwaysForced(body, v, force) ==
    LET moved == [body EXCEPT !.center = addVec2(body.center, v)]
    IN IF body.type # 0
       THEN calcBoundingBox(
                [moved EXCEPT !.vertices =
                    [k \in 1..4 |-> addVec2(body.vertices[k], v)]])
       ELSE moved

\* _moveBody(body, v, force)
moveBodyInternal(body, v, force) ==
    IF ~force /\ (body.pinned \/ NumEq(body.mass, 0))
    THEN body
    ELSE LET moved == [body EXCEPT !.center = addVec2(body.center, v)]
         IN IF body.type # 0
            THEN calcBoundingBox(
                     [moved EXCEPT !.vertices =
                         [k \in 1..4 |-> addVec2(body.vertices[k], v)]])
            ELSE moved

rotateBody(body, angle) ==
    LET turned == [body EXCEPT !.angle = Add(body.angle, angle)]
    IN IF body.type # 0
       THEN calcBoundingBox(computeRectNormals(
                [turned EXCEPT !.vertices =
                    [k \in 1..4 |-> rotateVec2(body.vertices[k], body.center, angle)]]))
       ELSE turned

(***************************************************************************)
(* Lists of bodies                                                         *)
(***************************************************************************)
Range(s) == {s[k] : k \in 1..Len(s)}
\* list.includes(b)
Includes(list, b) == b \in Range(list)
\* list.indexOf(b), 1-based; list.findIndex(x => x.id == b.id) is the same
\* index, ids being unique to their body
IndexOf(list, b) == CHOOSE k \in 1..Len(list) : list[k] = b /\ \A m \in 1..(k - 1) : list[m] # b
\* list.splice(k, 1)
Splice(list, k) == [m \in 1..(Len(list) - 1) |-> IF m < k THEN list[m] ELSE list[m + 1]]
\* the list without the first occurrence of b, if any
RemoveFirst(list, b) == IF Includes(list, b) THEN Splice(list, IndexOf(list, b)) ELSE list

allBodies == dynamicBodies \o staticBodies \o disabledBodies
enabledBodies == dynamicBodies \o staticBodies

Created == DOMAIN bodies

(***************************************************************************)
(* Inputs of the public calls                                              *)
(***************************************************************************)
\* createWorld(gravity)
Gravities == {newVec2(0, Num(1))}
\* arguments given to createCircle: a circle that falls, and one below it
\* that stays (the constructor floors the center and the radius)
CircleArgs == {
    [center |-> newVec2(Num(0), Num(0)), radius |-> Num(2), mass |-> Num(1)],
    [center |-> newVec2(Frac(3, 2), Num(3)), radius |-> Frac(5, 2), mass |-> 0] }
\* arguments given to createRectangle: a floor under the falling circle
RectArgs == {
    [center |-> newVec2(Num(0), Frac(7, 2)), width |-> Num(8), height |-> Frac(5, 2), mass |-> 0] }
Frictions == {Frac(1, 2)}
Restitutions == {Frac(1, 2)}
\* masses given to allowPinnedRotation
PinMasses == {0, Num(1)}
\* fps given to worldStep
FpsValues == {Num(1)}

NoOp == [op |-> "createWorld", body |-> 0]
Op(name, b) == [op |-> name, body |-> b]

(***************************************************************************)
(* createWorld                                                             *)
(***************************************************************************)
Init ==
    /\ bodies = << >>
    /\ dynamicBodies = << >>
    /\ staticBodies = << >>
    /\ disabledBodies = << >>
    /\ nextId = 1
    /\ joints = << >>
    /\ gravity \in Gravities
    /\ lastOp = NoOp
    /\ collisions = << >>
    /\ resolveLog = << >>
    /\ passLog = << >>
    /\ passThroughLog = << >>
    /\ pairLog = << >>
    /\ jointLog = << >>
    /\ steps = 0
    /\ calls = 0

\* what a call other than worldStep leaves of the last step's return value
NoStepResult ==
    /\ calls < MaxCalls
    /\ calls' = calls + 1
    /\ collisions' = << >>
    /\ resolveLog' = << >>
    /\ passLog' = << >>
    /\ passThroughLog' = << >>
    /\ pairLog' = << >>
    /\ jointLog' = << >>
    /\ UNCHANGED steps

(***************************************************************************)
(* Constructors                                                            *)
(***************************************************************************)
CreateCircle(center, radius, mass, friction, restitution) ==
    /\ nextId <= MaxBodies
    /\ bodies' = Append(bodies,
           createRigidBody(nextId, gravity,
               newVec2(Floor(center.x), Floor(center.y)),
               mass, friction, restitution, 0, Floor(radius), 0, 0))
    /\ nextId' = nextId + 1
    /\ lastOp' = Op("createCircle", nextId)
    /\ NoStepResult
    /\ UNCHANGED <<dynamicBodies, staticBodies, disabledBodies, joints, gravity>>

CreateRectangle(center, width, height, mass, friction, restitution) ==
    /\ nextId <= MaxBodies
    /\ LET w == Floor(width)
           h == Floor(height)
       IN bodies' = Append(bodies,
              createRigidBody(nextId, gravity,
                  newVec2(Floor(center.x), Floor(center.y)),
                  mass, friction, restitution, 1,
                  Div(Sqrt(Add(Mul(w, w), Mul(h, h))), Num(2)), w, h))
    /\ nextId' = nextId + 1
    /\ lastOp' = Op("createRectangle", nextId)
    /\ NoStepResult
    /\ UNCHANGED <<dynamicBodies, staticBodies, disabledBodies, joints, gravity>>

(***************************************************************************)
(* Membership                                                              *)
(***************************************************************************)
AddBody(b) ==
    /\ b \in Created
    /\ IF bodies[b].static
       THEN /\ Len(staticBodies) < MaxListLen
            /\ staticBodies' = Append(staticBodies, b)
            /\ UNCHANGED dynamicBodies
       ELSE /\ Len(dynamicBodies) < MaxListLen
            /\ dynamicBodies' = Append(dynamicBodies, b)
            /\ UNCHANGED staticBodies
    /\ lastOp' = Op("addBody", 0)
    /\ NoStepResult
    /\ UNCHANGED <<bodies, disabledBodies, nextId, joints, gravity>>

RemoveBody(b) ==
    /\ b \in Created
    /\ IF bodies[b].static
       THEN /\ staticBodies' = RemoveFirst(staticBodies, b)
            /\ UNCHANGED dynamicBodies
       ELSE /\ dynamicBodies' = RemoveFirst(dynamicBodies, b)
            /\ UNCHANGED staticBodies
    /\ lastOp' = Op("removeBody", b)
    /\ NoStepResult
    /\ UNCHANGED <<bodies, disabledBodies, nextId, joints, gravity>>

\* the three collections of the world
Collections ==
    [dynamicBodies |-> dynamicBodies, staticBodies |-> staticBodies,
     disabledBodies |-> disabledBodies]

\* disableBody(world, body) on the collections w
disableBody(w, b) ==
    [dynamicBodies |-> RemoveFirst(w.dynamicBodies, b),
     staticBodies |-> RemoveFirst(w.staticBodies, b),
     disabledBodies |-> IF ~Includes(w.disabledBodies, b)
                        THEN Append(w.disabledBodies, b) ELSE w.disabledBodies]

\* enableBody(world, body) on the collections w, static being body.static
enableBody(w, b, static) ==
    [dynamicBodies |-> IF ~static /\ ~Includes(w.dynamicBodies, b)
                       THEN Append(w.dynamicBodies, b) ELSE w.dynamicBodies,
     staticBodies |-> IF static /\ ~Includes(w.staticBodies, b)
                      THEN Append(w.staticBodies, b) ELSE w.staticBodies,
     disabledBodies |-> RemoveFirst(w.disabledBodies, b)]

DisableBody(b) ==
    /\ b \in Created
    /\ dynamicBodies' = disableBody(Collections, b).dynamicBodies
    /\ staticBodies' = disableBody(Collections, b).staticBodies
    /\ disabledBodies' = disableBody(Collections, b).disabledBodies
    /\ lastOp' = Op("disableBody", 0)
    /\ NoStepResult
    /\ UNCHANGED <<bodies, nextId, joints, gravity>>

EnableBody(b) ==
    /\ b \in Created
    /\ dynamicBodies' = enableBody(Collections, b, bodies[b].static).dynamicBodies
    /\ staticBodies' = enableBody(Collections, b, bodies[b].static).staticBodies
    /\ disabledBodies' = enableBody(Collections, b, bodies[b].static).disabledBodies
    /\ lastOp' = Op("enableBody", 0)
    /\ NoStepResult
    /\ UNCHANGED <<bodies, nextId, joints, gravity>>

\* world.staticBodies.find(b => b.id === id): the first entry with that id
AllowPinnedRotation(id, mass) ==
    /\ lastOp' = Op("allowPinnedRotation", 0)
    /\ NoStepResult
    /\ UNCHANGED <<disabledBodies, nextId, joints, gravity>>
    /\ IF Includes(staticBodies, id)
       THEN /\ LET body == bodies[id]
               IN bodies' = [bodies EXCEPT ![id] =
                      [body EXCEPT !.mass = mass,
                                   !.inertia = calculateInertia(body.type, mass, body.bounds,
                                                                body.width, body.height),
                                   !.pinned = TRUE,
                                   !.static = FALSE]]
            /\ staticBodies' = Splice(staticBodies, IndexOf(staticBodies, id))
            /\ dynamicBodies' = Append(dynamicBodies, id)
       ELSE UNCHANGED <<bodies, staticBodies, dynamicBodies>>

(***************************************************************************)
(* Joints                                                                  *)
(***************************************************************************)
CreateJoint(a, b, rigidity, elasticity) ==
    /\ a \in Created /\ b \in Created
    /\ Len(joints) < MaxJoints
    /\ joints' = Append(joints, [
           bodyA |-> a,
           bodyB |-> b,
           distance |-> Add(lengthVec2(subtractVec2(bodies[a].center, bodies[b].center)),
                            Frac(1, 2)),
           rigidity |-> rigidity,
           elasticity |-> elasticity ])
    /\ lastOp' = Op("createJoint", 0)
    /\ NoStepResult
    /\ UNCHANGED <<bodies, dynamicBodies, staticBodies, disabledBodies, nextId, gravity>>

(***************************************************************************)
(* worldStep: integrator                                                   *)
(***************************************************************************)
\* the body of the first loop of worldStep, on one body
integrateBody(body, fps) ==
    LET dt == Div(Num(1), fps)
        accelerated == [body EXCEPT !.velocity =
                            addVec2(body.velocity, scaleVec2(body.acceleration, dt))]
        moved == moveBodyInternal(accelerated, scaleVec2(accelerated.velocity, dt), FALSE)
        spun == [moved EXCEPT !.angularVelocity =
                     Add(moved.angularVelocity,
                         Div(Mul(moved.angularAcceleration, Num(1)), fps))]
    IN rotateBody(spun, Div(Mul(spun.angularVelocity, Num(1)), fps))

\* for (const body of world.dynamicBodies), from entry k on
RECURSIVE integrate(_, _, _)
integrate(bs, k, fps) ==
    IF k > Len(dynamicBodies) THEN bs
    ELSE LET id == dynamicBodies[k]
         IN integrate([bs EXCEPT ![id] = integrateBody(bs[id], fps)], k + 1, fps)

(***************************************************************************)
(* worldStep: joints                                                       *)
(***************************************************************************)
\* const otherId = joint.bodyA === body.id ? joint.bodyB : joint.bodyA
otherEnd(joint, id) == IF joint.bodyA = id THEN joint.bodyB ELSE joint.bodyA

\* const distance = lengthVec2(vec), for the body id and its other end
jointDistance(bs, id, joint) ==
    lengthVec2(subtractVec2(bs[otherEnd(joint, id)].center, bs[id].center))

\* const diff = distance - joint.distance
jointDiff(bs, id, joint) == Sub(jointDistance(bs, id, joint), joint.distance)

\* if (other) { .. if (diff != 0) { .. } }: the joint acts on the body id
jointActs(bs, id, joint) ==
    /\ Includes(enabledBodies, otherEnd(joint, id))
    /\ NumNe(jointDiff(bs, id, joint), 0)

\* the joint loop finding the other end among all bodies, enabled or not
applyJointAnyBody(bs, id, joint, fps) ==
    LET body == bs[id]
        other == bs[otherEnd(joint, id)]
        vec0 == subtractVec2(other.center, body.center)
        distance == lengthVec2(vec0)
        diff == Sub(distance, joint.distance)
        weight == IF NumEq(other.mass, 0) THEN Num(1) ELSE Frac(1, 2)
        vec == IF Gt(diff, 0)
               THEN scaleVec2(vec0,
                        Mul(Mul(Mul(Div(Num(1), distance), diff),
                                Sub(Num(1), joint.elasticity)), weight))
               ELSE scaleVec2(vec0,
                        Mul(Mul(Mul(Div(Num(1), distance), diff),
                                joint.rigidity), weight))
        moved == moveBodyInternal(body, vec, FALSE)
    IN IF NumEq(diff, 0) THEN bs
       ELSE [bs EXCEPT ![id] =
                [moved EXCEPT !.velocity = addVec2(moved.velocity, scaleVec2(vec, fps))]]

\* one joint applied to the dynamic body id
applyJoint(bs, id, joint, fps) ==
    LET body == bs[id]
        otherId == IF joint.bodyA = body.id THEN joint.bodyB ELSE joint.bodyA
    IN IF ~Includes(enabledBodies, otherId) THEN bs
       ELSE LET other == bs[otherId]
                vec0 == subtractVec2(other.center, body.center)
                distance == lengthVec2(vec0)
                diff == Sub(distance, joint.distance)
                weight == IF NumEq(other.mass, 0) THEN Num(1) ELSE Frac(1, 2)
                vec == IF Gt(diff, 0)
                       THEN scaleVec2(vec0,
                                Mul(Mul(Mul(Div(Num(1), distance), diff),
                                        Sub(Num(1), joint.elasticity)), weight))
                       ELSE scaleVec2(vec0,
                                Mul(Mul(Mul(Div(Num(1), distance), diff),
                                        joint.rigidity), weight))
                moved == moveBodyInternal(body, vec, FALSE)
            IN IF NumEq(diff, 0) THEN bs
               ELSE [bs EXCEPT ![id] =
                        [moved EXCEPT !.velocity =
                            addVec2(moved.velocity, scaleVec2(vec, fps))]]

\* a joint loop that takes up each joint once in a step: a joint already
\* taken up for its other end is passed over
jointStepOnce(st, id, m, fps) ==
    IF \E n \in 1..Len(st.applied) : st.applied[n].joint = m THEN st
    ELSE [bodies |-> applyJoint(st.bodies, id, joints[m], fps),
          applied |-> Append(st.applied,
                          [joint |-> m, body |-> id,
                           acted |-> jointActs(st.bodies, id, joints[m]),
                           distance |-> jointDistance(st.bodies, id, joints[m]),
                           same |-> applyJoint(st.bodies, id, joints[m], fps) = st.bodies,
                           before |-> st.bodies[id],
                           after |-> applyJoint(st.bodies, id, joints[m], fps)[id]])]

\* the joint m taken up for the body id: the bodies after it, and the note of
\* what it did
jointStep(st, id, m, fps) ==
    [bodies |-> applyJoint(st.bodies, id, joints[m], fps),
     applied |-> Append(st.applied,
                     [joint |-> m, body |-> id,
                      acted |-> jointActs(st.bodies, id, joints[m]),
                      distance |-> jointDistance(st.bodies, id, joints[m]),
                      same |-> applyJoint(st.bodies, id, joints[m], fps) = st.bodies,
                      before |-> st.bodies[id],
                      after |-> applyJoint(st.bodies, id, joints[m], fps)[id]])]

\* for (const joint of joints), the joints touching the body, from joint m on
RECURSIVE jointsOfBody(_, _, _, _)
jointsOfBody(st, id, m, fps) ==
    IF m > Len(joints) THEN st
    ELSE IF joints[m].bodyA = id \/ joints[m].bodyB = id
         THEN jointsOfBody(jointStep(st, id, m, fps), id, m + 1, fps)
         ELSE jointsOfBody(st, id, m + 1, fps)

\* for (const body of world.dynamicBodies), from entry k on
RECURSIVE solveJoints(_, _, _)
solveJoints(st, k, fps) ==
    IF k > Len(dynamicBodies) THEN st
    ELSE solveJoints(jointsOfBody(st, dynamicBodies[k], 1, fps), k + 1, fps)

(***************************************************************************)
(* Broad phase and narrow phase                                            *)
(***************************************************************************)
boundTest(s1, s2) ==
    /\ Lt(Abs(Sub(s1.center.x, s2.center.x)), Add(s1.boundingBox.x, s2.boundingBox.x))
    /\ Lt(Abs(Sub(s1.center.y, s2.center.y)), Add(s1.boundingBox.y, s2.boundingBox.y))

EmptyCollision ==
    [depth |-> 0, normal |-> newVec2(0, 0), start |-> newVec2(0, 0), end |-> newVec2(0, 0)]

setCollisionInfo(D, N, S) ==
    [depth |-> D, normal |-> newVec2(N.x, N.y), start |-> newVec2(S.x, S.y),
     end |-> addVec2(S, scaleVec2(N, D))]

\* the source's 1e9, at the top of the range of the model's numbers
E9 == 10^9
NoPoint == newVec2(NaN, NaN)

\* the support point of otherRect for face i of rect: the inner loop j = 3..0
supportOf(rect, otherRect, i) ==
    LET dir == scaleVec2(rect.faceNormals[i + 1], Num(-1))
        ptOnEdge == rect.vertices[i + 1]
        try(j, acc) ==
            LET projection == dotProduct(subtractVec2(otherRect.vertices[j + 1], ptOnEdge), dir)
            IN IF Gt(projection, 0) /\ Gt(projection, acc.dist)
               THEN [found |-> TRUE, point |-> otherRect.vertices[j + 1], dist |-> projection]
               ELSE acc
    IN try(0, try(1, try(2, try(3, [found |-> FALSE, point |-> NoPoint, dist |-> -E9]))))

\* the end of the outer loop's body for face i, sup being its support point:
\* if (hasSupport = tmpSupportPoint !== -1 && bestDistance < ..) {..}
axisStep(acc, i, sup) ==
    IF sup.found /\ Lt(sup.dist, acc.bestDistance)
    THEN [hasSupport |-> TRUE, bestDistance |-> sup.dist,
          bestIndex |-> i, supportPoint |-> sup.point]
    ELSE [acc EXCEPT !.hasSupport = sup.found]

\* for (i = 4; hasSupport && i--;) from face i down
RECURSIVE axisLoop(_, _, _, _)
axisLoop(rect, otherRect, i, acc) ==
    IF i < 0 \/ ~acc.hasSupport THEN acc
    ELSE axisLoop(rect, otherRect, i - 1, axisStep(acc, i, supportOf(rect, otherRect, i)))

\* if (hasSupport) { setCollisionInfo(..) } return hasSupport, res being what
\* the loop left
axisResult(rect, res) ==
    IF res.hasSupport
    THEN [status |-> TRUE,
          info |-> setCollisionInfo(res.bestDistance,
                       rect.faceNormals[res.bestIndex + 1],
                       addVec2(res.supportPoint,
                               scaleVec2(rect.faceNormals[res.bestIndex + 1],
                                         res.bestDistance)))]
    ELSE [status |-> FALSE, info |-> EmptyCollision]

findAxisLeastPenetration(rect, otherRect) ==
    axisResult(rect, axisLoop(rect, otherRect, 3,
                         [hasSupport |-> TRUE, bestDistance |-> E9,
                          bestIndex |-> -1, supportPoint |-> NoPoint]))

Hit(info) == [hit |-> TRUE, info |-> info]
Miss == [hit |-> FALSE, info |-> EmptyCollision]

\* the circle test with dist < rSum for dist <= rSum
circleCircleStrict(c1, c2) ==
    LET vFrom1to2 == subtractVec2(c2.center, c1.center)
        rSum == Add(c1.bounds, c2.bounds)
        dist == lengthVec2(vFrom1to2)
        normalFrom2to1 == normalize(scaleVec2(vFrom1to2, Num(-1)))
        radiusC2 == scaleVec2(normalFrom2to1, c2.bounds)
    IN IF Lt(dist, Sqrt(Mul(rSum, rSum)))
       THEN Hit(setCollisionInfo(Sub(rSum, dist), normalize(vFrom1to2),
                                 addVec2(c2.center, radiusC2)))
       ELSE Miss

circleCircle(c1, c2) ==
    LET vFrom1to2 == subtractVec2(c2.center, c1.center)
        rSum == Add(c1.bounds, c2.bounds)
        dist == lengthVec2(vFrom1to2)
        normalFrom2to1 == normalize(scaleVec2(vFrom1to2, Num(-1)))
        radiusC2 == scaleVec2(normalFrom2to1, c2.bounds)
    IN IF Le(dist, Sqrt(Mul(rSum, rSum)))
       THEN Hit(setCollisionInfo(Sub(rSum, dist), normalize(vFrom1to2),
                                 addVec2(c2.center, radiusC2)))
       ELSE Miss

\* the choice between the two passes with <= for <: A's axis also on a tie
shallowestOrEqual(r1, r2) ==
    IF r1.status /\ r2.status
    THEN (IF Le(r1.info.depth, r2.info.depth)
          THEN Hit(setCollisionInfo(r1.info.depth, r1.info.normal,
                       subtractVec2(r1.info.start,
                                    scaleVec2(r1.info.normal, r1.info.depth))))
          ELSE Hit(setCollisionInfo(r2.info.depth, scaleVec2(r2.info.normal, Num(-1)),
                                    r2.info.start)))
    ELSE Miss

\* the shallower of the two penetrations r1 (of c1 into c2) and r2
shallowest(r1, r2) ==
    IF r1.status /\ r2.status
    THEN (IF Lt(r1.info.depth, r2.info.depth)
          THEN Hit(setCollisionInfo(r1.info.depth, r1.info.normal,
                       subtractVec2(r1.info.start,
                                    scaleVec2(r1.info.normal, r1.info.depth))))
          ELSE Hit(setCollisionInfo(r2.info.depth, scaleVec2(r2.info.normal, Num(-1)),
                                    r2.info.start)))
    ELSE Miss

rectRect(c1, c2) ==
    shallowest(findAxisLeastPenetration(c1, c2), findAxisLeastPenetration(c2, c1))

\* the search for the nearest face: for (i = 4; i--;) with its break
RECURSIVE nearestFace(_, _, _, _)
nearestFace(rect, circ, i, acc) ==
    IF i < 0 THEN acc
    ELSE LET projection == dotProduct(subtractVec2(circ.center, rect.vertices[i + 1]),
                                      rect.faceNormals[i + 1])
         IN IF Gt(projection, 0)
            THEN [inside |-> FALSE, bestDistance |-> projection, nearestEdge |-> i]
            ELSE nearestFace(rect, circ, i - 1,
                     IF Gt(projection, acc.bestDistance)
                     THEN [acc EXCEPT !.bestDistance = projection, !.nearestEdge = i]
                     ELSE acc)

\* rectangle c1 against circle c2 once the nearest face is found
faceOrCorner(c1, c2, face) ==
    LET e == face.nearestEdge
        circ2Pos == c2.center
        faceInfo == setCollisionInfo(Sub(c2.bounds, face.bestDistance), c1.faceNormals[e + 1],
                        subtractVec2(circ2Pos, scaleVec2(c1.faceNormals[e + 1], c2.bounds)))
        cornerInfo(v1) ==
            LET dis == lengthVec2(v1)
                normal == normalize(v1)
            IN IF Gt(dis, c2.bounds) THEN Miss
               ELSE Hit(setCollisionInfo(Sub(c2.bounds, dis), normal,
                            addVec2(circ2Pos, scaleVec2(normal, Neg(c2.bounds)))))
        v1a == subtractVec2(circ2Pos, c1.vertices[e + 1])
        v2a == subtractVec2(c1.vertices[Idx(e + 1)], c1.vertices[e + 1])
        v1b == subtractVec2(circ2Pos, c1.vertices[Idx(e + 1)])
        v2b == scaleVec2(v2a, Num(-1))
    IN IF face.inside THEN Hit(faceInfo)
       ELSE IF Lt(dotProduct(v1a, v2a), 0) THEN cornerInfo(v1a)
       ELSE IF Lt(dotProduct(v1b, v2b), 0) THEN cornerInfo(v1b)
       ELSE IF Lt(face.bestDistance, c2.bounds) THEN Hit(faceInfo)
       ELSE Miss

\* c1 is the rectangle and c2 the circle
rectCircle(c1, c2) ==
    faceOrCorner(c1, c2, nearestFace(c1, c2, 3,
                             [inside |-> TRUE, bestDistance |-> -E9, nearestEdge |-> 0]))

testCollision(c1, c2) ==
    IF NumEq(c1.mass, 0) /\ NumEq(c2.mass, 0) THEN Miss
    ELSE IF c1.type = CIRCLE /\ c2.type = CIRCLE THEN circleCircle(c1, c2)
    ELSE IF c1.type = RECTANGLE /\ c2.type = RECTANGLE THEN rectRect(c1, c2)
    ELSE IF c1.type = CIRCLE /\ c2.type = RECTANGLE THEN rectCircle(c2, c1)
    ELSE rectCircle(c1, c2)

(***************************************************************************)
(* Resolver                                                                *)
(***************************************************************************)
\* World.damp and World.angularDamp, set by createWorld: 0.98
damp == Frac(98, 100)
angularDamp == Frac(98, 100)

\* the velocity part of resolveCollision for one body: sign is -1 for s1, +1
\* for s2.  The impulses along the normal and the tangent are applied in the
\* source in two blocks; each block is one call of this operator.
applyImpulse(body, impulse, sign, RcrossJ, last) ==
    IF body.static THEN body
    ELSE LET pushed == [body EXCEPT
                 !.velocity = IF sign < 0
                              THEN subtractVec2(body.velocity, scaleVec2(impulse, body.mass))
                              ELSE addVec2(body.velocity, scaleVec2(impulse, body.mass)),
                 !.angularVelocity = IF sign < 0
                              THEN Sub(body.angularVelocity, Mul(RcrossJ, body.inertia))
                              ELSE Add(body.angularVelocity, Mul(RcrossJ, body.inertia))]
             damped == [pushed EXCEPT
                 !.velocity = newVec2(Mul(pushed.velocity.x, damp), Mul(pushed.velocity.y, damp)),
                 !.angularVelocity = Mul(pushed.angularVelocity, angularDamp)]
         IN IF ~last THEN pushed
            ELSE IF damped.pinned THEN [damped EXCEPT !.velocity = newVec2(0, 0)]
            ELSE damped

\* the two blocks if (!s1.static) {..} if (!s2.static) {..} for one impulse, on
\* the heap h: s1 and s2 are h[a] and h[b]
applyImpulses(h, a, b, impulse, R1crossJ, R2crossJ, last) ==
    LET h1 == [h EXCEPT ![a] = applyImpulse(h[a], impulse, -1, R1crossJ, last)]
    IN [h1 EXCEPT ![b] = applyImpulse(h1[b], impulse, 1, R2crossJ, last)]

\* the impulse scalar along dir (the normal or the tangent), before the
\* friction factor: -(1 + newRestituion) * (relativeVelocity . dir) over
\* s1.mass + s2.mass + R1crossD * R1crossD * s1.inertia + ..
impulseScalar(numerator, m1, m2, R1crossD, R2crossD, inertia1, inertia2) ==
    Div(numerator,
        Add(Add(Add(m1, m2), Mul(Mul(R1crossD, R1crossD), inertia1)),
            Mul(Mul(R2crossD, R2crossD), inertia2)))

\* the impulse along the tangent, from jT on
frictionImpulse(h, a, b, r1, r2, tangent, jT) ==
    applyImpulses(h, a, b, scaleVec2(tangent, jT),
                  Mul(crossProduct(r1, tangent), jT), Mul(crossProduct(r2, tangent), jT), TRUE)

\* friction should less than force in normal direction
clampFriction(jT, jN) == IF Gt(jT, jN) THEN jN ELSE jT

\* resolveCollision from const tangent on; h holds the bodies after the
\* impulse along the normal
resolveTangent(h, a, b, r1, r2, relativeVelocity, newRestituion, newFriction, jN, tangent) ==
    frictionImpulse(h, a, b, r1, r2, tangent,
        clampFriction(
            impulseScalar(
                Mul(Mul(Neg(Add(Num(1), newRestituion)),
                        dotProduct(relativeVelocity, tangent)), newFriction),
                h[a].mass, h[b].mass, crossProduct(r1, tangent), crossProduct(r2, tangent),
                h[a].inertia, h[b].inertia),
            jN))

\* resolveCollision from let impulse on
resolveNormal(h, a, b, n, r1, r2, relativeVelocity, newRestituion, newFriction, jN) ==
    resolveTangent(
        applyImpulses(h, a, b, scaleVec2(n, jN),
                      Mul(crossProduct(r1, n), jN), Mul(crossProduct(r2, n), jN), FALSE),
        a, b, r1, r2, relativeVelocity, newRestituion, newFriction, jN,
        scaleVec2(normalize(subtractVec2(relativeVelocity,
                                scaleVec2(n, dotProduct(relativeVelocity, n)))),
                  Num(-1)))

\* resolveCollision from const rVelocityInNormal on
resolveVelocity(h, a, b, n, r1, r2, relativeVelocity) ==
    LET rVelocityInNormal == dotProduct(relativeVelocity, n)
        newRestituion == Min(h[a].restitution, h[b].restitution)
        newFriction == Min(h[a].friction, h[b].friction)
    \* if objects moving apart ignore
    IN IF Gt(rVelocityInNormal, 0) THEN [bodies |-> h, ok |-> FALSE]
       ELSE [bodies |->
                resolveNormal(h, a, b, n, r1, r2, relativeVelocity, newRestituion, newFriction,
                    impulseScalar(
                        Mul(Neg(Add(Num(1), newRestituion)), rVelocityInNormal),
                        h[a].mass, h[b].mass, crossProduct(r1, n), crossProduct(r2, n),
                        h[a].inertia, h[b].inertia)),
             ok |-> TRUE]

\* newV = V + v cross R
pointVelocity(body, r) ==
    addVec2(body.velocity,
            newVec2(Mul(Mul(Num(-1), body.angularVelocity), r.y),
                    Mul(body.angularVelocity, r.x)))

\* resolveCollision from const v1 on
resolveAt(h, a, b, n, r1, r2) ==
    resolveVelocity(h, a, b, n, r1, r2,
        subtractVec2(pointVelocity(h[b], r2), pointVelocity(h[a], r1)))

\* resolveCollision from const start on; h holds the bodies after the
\* correction of the positions
resolveMoved(h, a, b, collisionInfo) ==
    LET start == scaleVec2(collisionInfo.start, Div(h[b].mass, Add(h[a].mass, h[b].mass)))
        end == scaleVec2(collisionInfo.end, Div(h[a].mass, Add(h[a].mass, h[b].mass)))
        pt == addVec2(start, end)
    IN resolveAt(h, a, b, collisionInfo.normal,
                 subtractVec2(pt, h[a].center), subtractVec2(pt, h[b].center))

\* the position correction with forced moves
correctPositionsForced(bs, a, b, correctionAmount) ==
    LET h1 == [bs EXCEPT ![a] = moveBodyInternal(bs[a],
                                    scaleVec2(correctionAmount, Neg(bs[a].mass)), TRUE)]
    IN [h1 EXCEPT ![b] = moveBodyInternal(h1[b], scaleVec2(correctionAmount, h1[b].mass), TRUE)]

\* _moveBody(s1, ..); _moveBody(s2, ..)
correctPositions(bs, a, b, correctionAmount) ==
    LET h1 == [bs EXCEPT ![a] = moveBodyInternal(bs[a],
                                    scaleVec2(correctionAmount, Neg(bs[a].mass)), FALSE)]
    IN [h1 EXCEPT ![b] = moveBodyInternal(h1[b], scaleVec2(correctionAmount, h1[b].mass), FALSE)]

\* resolveCollision from the test of correctionAmount on
resolveCorrection(bs, a, b, collisionInfo, correctionAmount) ==
    IF NumEq(correctionAmount.x, 0) /\ NumEq(correctionAmount.y, 0)
    THEN [bodies |-> bs, ok |-> FALSE]
    ELSE resolveMoved(correctPositions(bs, a, b, correctionAmount), a, b, collisionInfo)

\* resolveCollision(world, s1, s2, collisionInfo) on the heap bs, s1 and s2
\* given by their ids (they may be the same object); the new heap and the
\* value returned
resolveCollision(bs, a, b, collisionInfo) ==
    IF ~Truthy(bs[a].mass) /\ ~Truthy(bs[b].mass) THEN [bodies |-> bs, ok |-> FALSE]
    ELSE resolveCorrection(bs, a, b, collisionInfo,
             scaleVec2(collisionInfo.normal,
                 Mul(Div(collisionInfo.depth, Add(bs[a].mass, bs[b].mass)), Frac(8, 10))))

(***************************************************************************)
(* worldStep: collision passes                                             *)
(***************************************************************************)
\* the loop without the re-orientation of the normal
orientNever(collisionInfo, bodyI, bodyJ) == collisionInfo

\* Make sure the normal is always from object[i] to object[j]
orient(collisionInfo, bodyI, bodyJ) ==
    IF Lt(dotProduct(collisionInfo.normal, subtractVec2(bodyJ.center, bodyI.center)), 0)
    THEN [depth |-> collisionInfo.depth,
          normal |-> scaleVec2(collisionInfo.normal, Num(-1)),
          start |-> collisionInfo.end,
          end |-> collisionInfo.start]
    ELSE collisionInfo

\* the loop recording a collision whatever resolveCollision returned
afterResolveAlways(st, ok, bodyI, bodyJ, collisionInfo) ==
    [st EXCEPT !.collision = TRUE,
               !.collisions = Append(st.collisions,
                   [bodyAId |-> bodyI.id, bodyBId |-> bodyJ.id,
                    depth |-> collisionInfo.depth])]

\* what the loop does with the value resolveCollision returned: the flag of
\* the pass and the list to return
afterResolve(st, ok, bodyI, bodyJ, collisionInfo) ==
    IF ok
    THEN [st EXCEPT !.collision = TRUE,
                    !.collisions = Append(st.collisions,
                        [bodyAId |-> bodyI.id, bodyBId |-> bodyJ.id,
                         depth |-> collisionInfo.depth])]
    ELSE st

\* bodyI.velocity.x *= 1 - bodyJ.permeability, and so on
passThrough(bodyI, bodyJ) ==
    [bodyI EXCEPT
        !.velocity = newVec2(Mul(bodyI.velocity.x, Sub(Num(1), bodyJ.permeability)),
                             Mul(bodyI.velocity.y, Sub(Num(1), bodyJ.permeability))),
        !.angularVelocity = Mul(bodyI.angularVelocity, Sub(Num(1), bodyJ.permeability))]

\* if (resolveCollision(..)) {..}, res being what resolveCollision gave; the
\* call is logged with the info and the centers it was given
resolved(st, idI, idJ, bodyI, bodyJ, pass, raw, collisionInfo, res) ==
    afterResolve(
        [st EXCEPT
            !.bodies = res.bodies,
            !.log = Append(st.log,
                [pass |-> pass, bodyAId |-> idI, bodyBId |-> idJ,
                 raw |-> raw, info |-> collisionInfo,
                 centerA |-> bodyI.center, centerB |-> bodyJ.center,
                 movedA |-> res.bodies[idI].center,
                 movedB |-> res.bodies[idJ].center,
                 ok |-> res.ok])],
        res.ok, bodyI, bodyJ, collisionInfo)

\* the inner loop from the re-orientation of the normal on
oriented(st, idI, idJ, bodyI, bodyJ, pass, raw, collisionInfo) ==
    resolved(st, idI, idJ, bodyI, bodyJ, pass, raw, collisionInfo,
             resolveCollision(st.bodies, idI, idJ, collisionInfo))

\* the inner loop after testCollision, tested being what it gave
collided(st, idI, idJ, bodyI, bodyJ, pass, tested) ==
    IF ~tested.hit THEN st
    ELSE IF Gt(bodyJ.permeability, 0)
         THEN [st EXCEPT
                  !.bodies[idI] = passThrough(bodyI, bodyJ),
                  !.through = Append(st.through,
                      [pass |-> pass, bodyAId |-> idI, bodyBId |-> idJ,
                       permeability |-> bodyJ.permeability,
                       before |-> bodyI, after |-> passThrough(bodyI, bodyJ)])]
    ELSE oriented(st, idI, idJ, bodyI, bodyJ, pass, tested.info,
                  orient(tested.info, bodyI, bodyJ))

\* the inner loop after if (i === j) continue
pairOf(st, idI, idJ, bodyI, bodyJ, pass) ==
    IF ~boundTest(bodyI, bodyJ) THEN st
    ELSE collided(st, idI, idJ, bodyI, bodyJ, pass, testCollision(bodyI, bodyJ))

\* the body of the inner loop without if (i === j) continue
pairStepNoSkip(st, i, j, pass) ==
    pairOf([st EXCEPT !.pairs = Append(st.pairs,
                        [pass |-> pass, i |-> i, j |-> j,
                         bodyAId |-> dynamicBodies[i], bodyBId |-> enabledBodies[j]])],
           dynamicBodies[i], enabledBodies[j],
           st.bodies[dynamicBodies[i]], st.bodies[enabledBodies[j]], pass)

\* the body of the inner loop for dynamicBodies[i] and all[j] (1-based i, j)
pairStep(st, i, j, pass) ==
    IF i = j THEN st
    ELSE pairOf([st EXCEPT !.pairs = Append(st.pairs,
                        [pass |-> pass, i |-> i, j |-> j,
                         bodyAId |-> dynamicBodies[i], bodyBId |-> enabledBodies[j]])],
                dynamicBodies[i], enabledBodies[j],
                st.bodies[dynamicBodies[i]], st.bodies[enabledBodies[j]], pass)

\* for (let j = all.length; j-- > i;), from j down
RECURSIVE innerLoop(_, _, _, _)
innerLoop(st, i, j, pass) ==
    IF j < i THEN st
    ELSE innerLoop(pairStep(st, i, j, pass), i, j - 1, pass)

\* for (let i = world.dynamicBodies.length; i--;), from i down
RECURSIVE outerLoop(_, _, _)
outerLoop(st, i, pass) ==
    IF i < 1 THEN st
    ELSE outerLoop(innerLoop(st, i, Len(enabledBodies), pass), i - 1, pass)

\* the loop without its break: always the full number of passes
morePassesNoBreak(k, collision) == k < MaxPasses

\* the loop goes on to another pass: k passes were run, the last one set the
\* flag to collision
morePasses(k, collision) == collision /\ k < MaxPasses

\* number of calls of resolveCollision in pass k that returned true
ResolvedIn(log, k) == Cardinality({m \in 1..Len(log) : log[m].pass = k /\ log[m].ok})

\* the state after pass k with the number of its resolutions noted
countPass(after, k) == [after EXCEPT !.passes = Append(after.passes, ResolvedIn(after.log, k))]

RECURSIVE passLoop(_, _)
\* the end of pass k: if (!collision) break
endOfPass(after, k) ==
    IF morePasses(k, after.collision) THEN passLoop(countPass(after, k), k + 1)
    ELSE countPass(after, k)

\* for (let k = 9; k--;), pass k (counted from 1) and the ones after it
passLoop(st, k) ==
    endOfPass(outerLoop([st EXCEPT !.collision = FALSE], Len(dynamicBodies), k), k)

(***************************************************************************)
(* worldStep: stability tracker                                            *)
(***************************************************************************)
\* body.restingTime += 1 / fps
\* for 0 < dt <= 1: 2^53 - 1 + dt rounds to 2^53 - 1 below a half and to 2^53
\* from a half on, and 2^53 + dt rounds to 2^53
addResting(restingTime, dt) ==
    IF restingTime = MaxSafeInteger
    THEN (IF Ge(dt, Frac(1, 2)) THEN TwoTo53 ELSE MaxSafeInteger)
    ELSE IF restingTime = TwoTo53 THEN TwoTo53
    ELSE Add(restingTime, dt)

trackBody(body, fps) ==
    IF Gt(body.mass, 0)
    THEN LET t0 == [body EXCEPT !.restingTime = addResting(body.restingTime, Div(Num(1), fps))]
             t1 == IF Gt(Abs(Sub(t0.center.x, t0.averageCenter.x)), Num(1))
                   THEN [t0 EXCEPT !.averageCenter.x = t0.center.x, !.restingTime = 0]
                   ELSE t0
             t2 == IF Gt(Abs(Sub(t1.center.y, t1.averageCenter.y)), Num(1))
                   THEN [t1 EXCEPT !.averageCenter.y = t1.center.y, !.restingTime = 0]
                   ELSE t1
         IN IF Ge(Abs(Sub(t2.angle, t2.averageAngle)), Frac(1, 10))
            THEN [t2 EXCEPT !.averageAngle = t2.angle, !.restingTime = 0]
            ELSE t2
    ELSE [body EXCEPT !.averageCenter = newVec2(body.center.x, body.center.y),
                      !.averageAngle = body.angle]

\* for (const body of allBodies(world)), from entry k on
RECURSIVE track(_, _, _)
track(bs, k, fps) ==
    IF k > Len(allBodies) THEN bs
    ELSE LET id == allBodies[k]
         IN track([bs EXCEPT ![id] = trackBody(bs[id], fps)], k + 1, fps)

(***************************************************************************)
(* worldStep                                                               *)
(***************************************************************************)
\* the stability tracker run on the bodies the passes left
tracked(st, fps) == [st EXCEPT !.bodies = track(st.bodies, 1, fps)]

\* the bodies the joints left, at the start of the passes: const collisions = []
jointed(st) ==
    [bodies |-> st.bodies, applied |-> st.applied,
     collisions |-> << >>, log |-> << >>,
     passes |-> << >>, through |-> << >>, pairs |-> << >>,
     collision |-> FALSE]

\* worldStep(fps, world): the bodies after the step, the list returned, and
\* the record of the calls of resolveCollision and of the passes
stepResult(fps) ==
    tracked(passLoop(jointed(solveJoints([bodies |-> integrate(bodies, 1, fps),
                                          applied |-> << >>], 1, fps)), 1),
            fps)

\* the world and the return value after the step
stepDone(res) ==
    /\ bodies' = res.bodies
    /\ collisions' = res.collisions
    /\ resolveLog' = res.log
    /\ passLog' = res.passes
    /\ passThroughLog' = res.through
    /\ pairLog' = res.pairs
    /\ jointLog' = res.applied

WorldStep(fps) ==
    /\ steps < MaxSteps
    /\ calls < MaxCalls
    /\ stepDone(stepResult(fps))
    /\ steps' = steps + 1
    /\ calls' = calls + 1
    /\ lastOp' = Op("worldStep", 0)
    /\ UNCHANGED <<dynamicBodies, staticBodies, disabledBodies, nextId, joints, gravity>>

(***************************************************************************)
(* Specification                                                           *)
(***************************************************************************)
Next ==
    \/ \E c \in CircleArgs, f \in Frictions, e \in Restitutions :
          CreateCircle(c.center, c.radius, c.mass, f, e)
    \/ \E r \in RectArgs, f \in Frictions, e \in Restitutions :
          CreateRectangle(r.center, r.width, r.height, r.mass, f, e)
    \/ \E b \in 1..MaxBodies : AddBody(b)
    \/ \E b \in 1..MaxBodies : RemoveBody(b)
    \/ \E b \in 1..MaxBodies : DisableBody(b)
    \/ \E b \in 1..MaxBodies : EnableBody(b)
    \/ \E id \in 1..MaxBodies, m \in PinMasses : AllowPinnedRotation(id, m)
    \/ \E a \in 1..MaxBodies, b \in 1..MaxBodies : CreateJoint(a, b, Num(1), 0)
    \/ \E fps \in FpsValues : WorldStep(fps)

Spec == Init /\ [][Next]_vars

(***************************************************************************)
(* A second specification: two bodies of chosen shapes, placed with the    *)
(* public moveBody and rotateBody, then stepped                            *)
(***************************************************************************)
\* number of bodies created under SpecShapes
ShapeBodies == 2

\* arguments given to createCircle: two circles that touch at their starting
\* places (one of them static), two circles of radius 10 that are 15 apart,
\* and a circle of negative radius
ShapeCircleArgs == {
    [center |-> newVec2(Num(0), Num(0)), radius |-> Num(2), mass |-> Num(1)],
    [center |-> newVec2(Num(4), Num(0)), radius |-> Num(2), mass |-> 0],
    [center |-> newVec2(Num(0), Num(20)), radius |-> Num(10), mass |-> Num(1)],
    [center |-> newVec2(Num(15), Num(20)), radius |-> Num(10), mass |-> 0],
    [center |-> newVec2(Num(2), Num(-4)), radius |-> Num(-1), mass |-> Num(1)] }
\* arguments given to createRectangle: a static square
ShapeRectArgs == {
    [center |-> newVec2(Num(0), Num(0)), width |-> Num(8), height |-> Num(8), mass |-> 0] }
\* angles given to rotateBody: about an eighth of a turn
Angles == {Frac(78, 100)}
\* vectors given to moveBody
Moves == {newVec2(Num(1), 0)}

\* moveBody(body, v): the forced move
MoveBody(b, v) ==
    /\ b \in Created
    /\ bodies' = [bodies EXCEPT ![b] = moveBodyInternal(bodies[b], v, TRUE)]
    /\ lastOp' = Op("moveBody", 0)
    /\ NoStepResult
    /\ UNCHANGED <<dynamicBodies, staticBodies, disabledBodies, nextId, joints, gravity>>

\* rotateBody(body, angle)
RotateBody(b, angle) ==
    /\ b \in Created
    /\ bodies' = [bodies EXCEPT ![b] = rotateBody(bodies[b], angle)]
    /\ lastOp' = Op("rotateBody", 0)
    /\ NoStepResult
    /\ UNCHANGED <<dynamicBodies, staticBodies, disabledBodies, nextId, joints, gravity>>

NextShapes ==
    \/ \E c \in ShapeCircleArgs, f \in Frictions, e \in Restitutions :
          nextId <= ShapeBodies /\ CreateCircle(c.center, c.radius, c.mass, f, e)
    \/ \E r \in ShapeRectArgs, f \in Frictions, e \in Restitutions :
          nextId <= ShapeBodies /\ CreateRectangle(r.center, r.width, r.height, r.mass, f, e)
    \/ \E b \in 1..ShapeBodies : AddBody(b)
    \/ \E b \in 1..ShapeBodies, v \in Moves : MoveBody(b, v)
    \/ \E b \in 1..ShapeBodies, angle \in Angles : RotateBody(b, angle)
    \/ \E fps \in FpsValues : WorldStep(fps)

SpecShapes == Init /\ [][NextShapes]_vars

(***************************************************************************)
(* A third specification: circles that overlap, some made permeable by the *)
(* caller (body.permeability is a public field)                            *)
(***************************************************************************)
\* number of bodies created under SpecPermeable
PermBodies == 2

\* arguments given to createCircle: two dynamic circles that overlap and a
\* static one under the first
PermCircleArgs == {
    [center |-> newVec2(Num(0), Num(0)), radius |-> Num(2), mass |-> Num(1)],
    [center |-> newVec2(Num(2), Num(0)), radius |-> Num(2), mass |-> Num(1)],
    [center |-> newVec2(Num(0), Num(3)), radius |-> Num(2), mass |-> 0] }
\* values the caller stores in body.permeability
Permeabilities == {Frac(1, 2), Num(1)}

\* body.permeability = p, by the caller
SetPermeability(b, p) ==
    /\ b \in Created
    /\ bodies' = [bodies EXCEPT ![b].permeability = p]
    /\ lastOp' = Op("setPermeability", 0)
    /\ NoStepResult
    /\ UNCHANGED <<dynamicBodies, staticBodies, disabledBodies, nextId, joints, gravity>>

NextPermeable ==
    \/ \E c \in PermCircleArgs, f \in Frictions, e \in Restitutions :
          nextId <= PermBodies /\ CreateCircle(c.center, c.radius, c.mass, f, e)
    \/ \E b \in 1..PermBodies : AddBody(b)
    \/ \E b \in 1..PermBodies, p \in Permeabilities : SetPermeability(b, p)
    \/ \E fps \in FpsValues : WorldStep(fps)

SpecPermeable == Init /\ [][NextPermeable]_vars

(***************************************************************************)
(* A fourth specification: joints in a world of three circles, two dynamic *)
(* ones that overlap and a static one apart from them, all added           *)
(***************************************************************************)
\* the arguments the three circles were created with, in order
JointScene == <<
    [center |-> newVec2(Num(0), Num(0)), radius |-> Num(2), mass |-> Num(1)],
    [center |-> newVec2(Num(3), Num(0)), radius |-> Num(2), mass |-> Num(1)],
    [center |-> newVec2(Num(0), Num(-4)), radius |-> Num(1), mass |-> 0] >>

\* the world after createWorld, createCircle for each entry of the scene and
\* addBody for each body; calls and steps count from here
InitJoints ==
    /\ gravity \in Gravities
    /\ bodies = [k \in 1..Len(JointScene) |->
                    createRigidBody(k, gravity,
                        newVec2(Floor(JointScene[k].center.x), Floor(JointScene[k].center.y)),
                        JointScene[k].mass, Frac(1, 2), Frac(1, 2), 0,
                        Floor(JointScene[k].radius), 0, 0)]
    /\ dynamicBodies = <<1, 2>>
    /\ staticBodies = <<3>>
    /\ disabledBodies = << >>
    /\ nextId = Len(JointScene) + 1
    /\ joints = << >>
    /\ lastOp = Op("addBody", 0)
    /\ collisions = << >>
    /\ resolveLog = << >>
    /\ passLog = << >>
    /\ passThroughLog = << >>
    /\ pairLog = << >>
    /\ jointLog = << >>
    /\ steps = 0
    /\ calls = 0

\* the bodies given to createJoint: the two dynamic circles, a dynamic and the
\* static one, and one body twice
JointEnds == {<<1, 2>>, <<1, 3>>, <<2, 3>>, <<1, 1>>}

NextJoints ==
    \/ \E b \in 1..MaxBodies : RemoveBody(b)
    \/ \E b \in 1..MaxBodies : DisableBody(b)
    \/ \E ends \in JointEnds : CreateJoint(ends[1], ends[2], Num(1), 0)
    \/ \E fps \in FpsValues : WorldStep(fps)

SpecJoints == InitJoints /\ [][NextJoints]_vars

(***************************************************************************)
(* A fifth specification: unrotated rectangles moved against each other    *)
(***************************************************************************)
\* number of bodies created under SpecRects
RectBodies == 2
\* arguments given to createRectangle: a static square, a dynamic rectangle
\* overlapping its right side, and a dynamic square touching it from below
RectPairArgs == {
    [center |-> newVec2(Num(0), Num(0)), width |-> Num(4), height |-> Num(4), mass |-> 0],
    [center |-> newVec2(Num(3), Num(0)), width |-> Num(4), height |-> Num(2), mass |-> Num(1)],
    [center |-> newVec2(Num(0), Num(3)), width |-> Num(2), height |-> Num(2), mass |-> Num(1)] }
\* vectors given to moveBody; addBody is given each body once
RectMoves == {newVec2(Num(1), 0), newVec2(Num(-1), 0), newVec2(0, Num(-1))}

NextRects ==
    \/ \E r \in RectPairArgs, f \in Frictions, e \in Restitutions :
          nextId <= RectBodies /\ CreateRectangle(r.center, r.width, r.height, r.mass, f, e)
    \/ \E b \in 1..RectBodies : ~Includes(allBodies, b) /\ AddBody(b)
    \/ \E b \in 1..RectBodies, v \in RectMoves : MoveBody(b, v)
    \/ \E fps \in FpsValues : WorldStep(fps)

SpecRects == Init /\ [][NextRects]_vars

(***************************************************************************)
(* Properties                                                              *)
(***************************************************************************)
\* number of entries of list that are the body b
Count(list, b) == Cardinality({k \in 1..Len(list) : list[k] = b})
\* the transition is a call of worldStep
StepTaken == steps' = steps + 1
AfterStep == lastOp.op = "worldStep"
\* a . b of the normal handed to the resolver and the vector from A to B
Facing(e) == dotProduct(e.info.normal, subtractVec2(e.centerB, e.centerA))
\* the entries of the log whose resolveCollision call returned true
OkEntries(log) == SelectSeq(log, LAMBDA e : e.ok)

\* C1: after any sequence of membership calls no body is in more than one of
\* dynamicBodies, staticBodies and disabledBodies, and none is twice in one
\* list.  Stated as the claim has it; addBody breaks it.
C1_NoBodyTwice ==
    \A b \in Created :
        Count(dynamicBodies, b) + Count(staticBodies, b) + Count(disabledBodies, b) <= 1

\* C2: right after createCircle or createRectangle returns, the new body is
\* in dynamicBodies when its mass is nonzero and in staticBodies when it is 0.
\* Stated as the claim has it; the constructors add the body to no list.
C2_CreatedIsPlaced ==
    lastOp.op \in {"createCircle", "createRectangle"} =>
        IF bodies[lastOp.body].mass # 0
        THEN Includes(dynamicBodies, lastOp.body)
        ELSE Includes(staticBodies, lastOp.body)

\* C3: after removeBody(world, body) the body is in none of the three lists.
\* Stated as the claim has it; removeBody never looks in disabledBodies.
C3_RemovedIsGone ==
    lastOp.op = "removeBody" => ~Includes(allBodies, lastOp.body)

\* C4: every body in dynamicBodies has nonzero inverse mass and every body in
\* staticBodies has inverse mass 0.  Stated as the claim has it;
\* allowPinnedRotation(world, id, 0) breaks it.
C4_MassMatchesList ==
    /\ \A b \in Range(dynamicBodies) : bodies[b].mass # 0
    /\ \A b \in Range(staticBodies) : bodies[b].mass = 0

\* C5: a call of worldStep changes neither the center nor the angle of a
\* static body, that is a body held in staticBodies whose inverse mass is 0,
\* whatever overlaps it and whatever joints name it.
C5_StaticInvariance ==
    [][StepTaken =>
        \A b \in Range(staticBodies) :
            bodies[b].mass = 0 =>
                /\ bodies'[b].center = bodies[b].center
                /\ bodies'[b].angle = bodies[b].angle]_vars

\* C5 witness: a step in which a collision with a static body was resolved
C5_Witness ==
    /\ AfterStep
    /\ \E m \in 1..Len(resolveLog) :
           /\ resolveLog[m].ok
           /\ Includes(staticBodies, resolveLog[m].bodyBId)
           /\ bodies[resolveLog[m].bodyBId].mass = 0
           /\ resolveLog[m].bodyAId # resolveLog[m].bodyBId

\* C6: a call of worldStep changes the center of no pinned body.
C6_PinnedCenterLocked ==
    [][StepTaken =>
        \A b \in Created :
            bodies[b].pinned => bodies'[b].center = bodies[b].center]_vars

\* C6 witness: a step in which a collision of a pinned body of nonzero
\* inverse mass with another body was resolved, position correction included
C6_Witness ==
    /\ AfterStep
    /\ \E m \in 1..Len(resolveLog) :
           /\ resolveLog[m].ok
           /\ resolveLog[m].bodyAId # resolveLog[m].bodyBId
           /\ \E b \in {resolveLog[m].bodyAId, resolveLog[m].bodyBId} :
                  bodies[b].pinned /\ bodies[b].mass # 0

\* C7: a call of worldStep changes no attribute of a body in disabledBodies.
\* Stated as the claim has it; the stability tracker runs over allBodies.
C7_DisabledUntouched ==
    [][StepTaken =>
        \A b \in Range(disabledBodies) :
            /\ bodies'[b].center = bodies[b].center
            /\ bodies'[b].angle = bodies[b].angle
            /\ bodies'[b].velocity = bodies[b].velocity
            /\ bodies'[b].angularVelocity = bodies[b].angularVelocity
            /\ bodies'[b].averageCenter = bodies[b].averageCenter
            /\ bodies'[b].averageAngle = bodies[b].averageAngle
            /\ bodies'[b].restingTime = bodies[b].restingTime]_vars

\* C8: worldStep runs at least 1 and at most 9 passes, and every pass but the
\* last resolved at least one collision.
C8_PassesBounded ==
    AfterStep =>
        /\ Len(passLog) >= 1
        /\ Len(passLog) <= MaxPasses
        /\ \A k \in 1..(Len(passLog) - 1) : passLog[k] > 0

\* C8 witness: a step of several passes that a pass without a resolved
\* collision ended before the ninth
C8_Witness ==
    /\ AfterStep
    /\ Len(passLog) > 1
    /\ Len(passLog) < MaxPasses
    /\ passLog[Len(passLog)] = 0

\* C9: the list worldStep returns holds, in order, one record (the two ids
\* and the depth) for each call of resolveCollision in this step that
\* returned true, and nothing else.
C9_OneRecordPerResolution ==
    AfterStep =>
        LET done == OkEntries(resolveLog)
        IN /\ Len(collisions) = Len(done)
           /\ \A k \in 1..Len(done) :
                  collisions[k] = [bodyAId |-> done[k].bodyAId,
                                   bodyBId |-> done[k].bodyBId,
                                   depth |-> done[k].info.depth]

\* C9 witness: a step that resolved the same pair in two passes and also made
\* a call of resolveCollision that returned false
C9_Witness ==
    /\ AfterStep
    /\ \E m \in 1..Len(resolveLog) : ~resolveLog[m].ok
    /\ \E i, j \in 1..Len(collisions) :
           /\ i < j
           /\ collisions[i].bodyAId = collisions[j].bodyAId
           /\ collisions[i].bodyBId = collisions[j].bodyBId

\* C10: for every collision handed to the resolver the normal has a dot
\* product >= 0 with B.center - A.center; when the detected normal has a
\* negative one, the normal handed over is its negation, start and end are
\* swapped and the depth is the same.
C10_NormalFromAToB ==
    AfterStep =>
        \A m \in 1..Len(resolveLog) :
            LET e == resolveLog[m]
            IN /\ Ge(Facing(e), 0)
               /\ Lt(dotProduct(e.raw.normal, subtractVec2(e.centerB, e.centerA)), 0) =>
                      /\ e.info.normal = scaleVec2(e.raw.normal, Num(-1))
                      /\ e.info.start = e.raw.end
                      /\ e.info.end = e.raw.start
                      /\ e.info.depth = e.raw.depth

\* C10 witness: a step in which detection gave a normal pointing from the
\* second body to the first
C10_Witness ==
    /\ AfterStep
    /\ \E m \in 1..Len(resolveLog) :
           Lt(dotProduct(resolveLog[m].raw.normal,
                         subtractVec2(resolveLog[m].centerB, resolveLog[m].centerA)), 0)

\* C11: every Collision record worldStep returns has depth >= 0, whatever
\* radius, width and height the constructors were given.  Stated as the claim
\* has it; a circle of negative radius inside a rotated rectangle gives a
\* negative depth.
C11_DepthNonNegative ==
    AfterStep => \A k \in 1..Len(collisions) : Ge(collisions[k].depth, 0)

\* the body b is handed to resolveCollision in entry e of the log
Resolves(e, b) == e.bodyAId = b \/ e.bodyBId = b

\* C12: a dynamic body in contact with a body of permeability 1 is not moved
\* by position correction, and the contact leaves its velocity and angular
\* velocity as they were.  Stated as the claim has it; the code multiplies
\* them by 1 - 1.
C12_PermeableOneNoEffect ==
    AfterStep =>
        \A m \in 1..Len(passThroughLog) :
            LET e == passThroughLog[m]
            IN e.permeability = Num(1) /\ e.bodyAId # e.bodyBId =>
                   /\ e.after.velocity = e.before.velocity
                   /\ e.after.angularVelocity = e.before.angularVelocity
                   /\ e.after.center = e.before.center
                   /\ \A n \in 1..Len(resolveLog) :
                          ~(Resolves(resolveLog[n], e.bodyAId) /\ Resolves(resolveLog[n], e.bodyBId))

\* exactly one of the bodies a and b has permeability > 0
OnePermeable(a, b) ==
    Gt(bodies[a].permeability, 0) # Gt(bodies[b].permeability, 0)

\* C13: a colliding pair with exactly one permeable body is pass-through in
\* either order: resolveCollision is not called on it (no correction, no
\* impulse, no record), and the body scaled by 1 - permeability is the one
\* that is not permeable.  Stated as the claim has it; the loop looks at the
\* permeability of the second body only.
C13_PassThroughEitherOrder ==
    AfterStep =>
        /\ \A n \in 1..Len(resolveLog) :
               ~OnePermeable(resolveLog[n].bodyAId, resolveLog[n].bodyBId)
        /\ \A k \in 1..Len(collisions) :
               ~OnePermeable(collisions[k].bodyAId, collisions[k].bodyBId)
        /\ \A m \in 1..Len(passThroughLog) :
               LET e == passThroughLog[m]
               IN OnePermeable(e.bodyAId, e.bodyBId) =>
                      /\ e.before.permeability = 0
                      /\ e.after.velocity =
                             scaleVec2(e.before.velocity, Sub(Num(1), e.permeability))
                      /\ e.after.angularVelocity =
                             Mul(e.before.angularVelocity, Sub(Num(1), e.permeability))

\* the body b is exactly once in the world's lists
Listed(b) == Count(allBodies, b) = 1

\* the drift test of the claim for body b over the step fps: the center and
\* the angle after the step against the averages before it
Drifted(b) ==
    \/ Gt(Abs(Sub(bodies'[b].center.x, bodies[b].averageCenter.x)), Num(1))
    \/ Gt(Abs(Sub(bodies'[b].center.y, bodies[b].averageCenter.y)), Num(1))
    \/ Ge(Abs(Sub(bodies'[b].angle, bodies[b].averageAngle)), Frac(1, 10))

\* C14: at the end of a worldStep every body of positive inverse mass that
\* drifted (center by more than 1 on an axis, or angle by 0.1 or more) has
\* restingTime 0 and its averages equal to its center, on both axes, and to
\* its angle; every other such body has restingTime grown by 1 / fps and its
\* averages unchanged.  Stated as the claim has it, for bodies that are once
\* in the world and whose restingTime is in the range where sums are exact;
\* the code snaps only the component that drifted.
C14_RestTracking ==
    [][StepTaken =>
        \E fps \in FpsValues :
            \A b \in Created :
                Listed(b) /\ Gt(bodies'[b].mass, 0) /\ bodies[b].restingTime < MaxSafeInteger =>
                    IF Drifted(b)
                    THEN /\ bodies'[b].restingTime = 0
                         /\ bodies'[b].averageCenter = bodies'[b].center
                         /\ bodies'[b].averageAngle = bodies'[b].angle
                    ELSE /\ bodies'[b].restingTime =
                                Add(bodies[b].restingTime, Div(Num(1), fps))
                         /\ bodies'[b].averageCenter = bodies[b].averageCenter
                         /\ bodies'[b].averageAngle = bodies[b].averageAngle]_vars

\* the joint has an end that is not an enabled body
Dangling(joint) ==
    ~Includes(enabledBodies, joint.bodyA) \/ ~Includes(enabledBodies, joint.bodyB)

\* C15: in a worldStep a joint with an end that is no enabled body (never
\* added, removed or disabled) does nothing: taking it up leaves every body
\* as it was, and the joints after it are still taken up.
C15_DanglingJointInert ==
    AfterStep =>
        \A m \in 1..Len(jointLog) :
            Dangling(joints[jointLog[m].joint]) =>
                /\ jointLog[m].same
                /\ ~jointLog[m].acted

\* C15 witness: a step that took up a joint to a disabled or removed body and
\* then a joint between enabled bodies, which moved its body
C15_Witness ==
    /\ AfterStep
    /\ \E m, n \in 1..Len(jointLog) :
           /\ m < n
           /\ Dangling(joints[jointLog[m].joint])
           /\ ~Dangling(joints[jointLog[n].joint])
           /\ jointLog[n].acted
           /\ jointLog[n].after.center # jointLog[n].before.center

\* two circles of radius >= 0, not both of inverse mass 0
CirclePair(c1, c2) ==
    /\ c1.type = CIRCLE /\ c2.type = CIRCLE
    /\ Ge(c1.bounds, 0) /\ Ge(c2.bounds, 0)
    /\ ~(NumEq(c1.mass, 0) /\ NumEq(c2.mass, 0))

\* the distance between the centers of two bodies
CenterDistance(c1, c2) == lengthVec2(subtractVec2(c2.center, c1.center))

\* C16: for two circles, at least one of nonzero inverse mass, testCollision
\* reports a collision exactly when the distance between the centers is
\* <= r1 + r2, and the depth reported is r1 + r2 - distance.
C16_CircleTest ==
    \A a \in Created, b \in Created :
        CirclePair(bodies[a], bodies[b]) =>
            LET tested == testCollision(bodies[a], bodies[b])
                dist == CenterDistance(bodies[a], bodies[b])
                rSum == Add(bodies[a].bounds, bodies[b].bounds)
            IN /\ tested.hit <=> Le(dist, rSum)
               /\ tested.hit => tested.info.depth = Sub(rSum, dist)

\* C16 witness: two circles of radii 10 and 10 at distance 15, one of them
\* dynamic, pass the broad phase and are reported with depth 5
C16_Witness ==
    /\ \E a \in Created, b \in Created :
           /\ CirclePair(bodies[a], bodies[b])
           /\ bodies[a].bounds = Num(10) /\ bodies[b].bounds = Num(10)
           /\ CenterDistance(bodies[a], bodies[b]) = Num(15)
           /\ boundTest(bodies[a], bodies[b])
           /\ testCollision(bodies[a], bodies[b]).hit
           /\ testCollision(bodies[a], bodies[b]).info.depth = Num(5)

\* the places of pairLog where pass p took up bodies a and b, in either order
ExaminedAt(p, a, b) ==
    {n \in 1..Len(pairLog) :
        /\ pairLog[n].pass = p
        /\ {pairLog[n].bodyAId, pairLog[n].bodyBId} = {a, b}}

\* C17: in every pass of worldStep each unordered pair of distinct enabled
\* bodies with at least one member in dynamicBodies is examined exactly once,
\* no body is paired with itself, and no pair of two staticBodies members or
\* with a disabled body is examined, provided each body occurs once in the
\* collections.
C17_EachPairOnce ==
    (lastOp.op = "worldStep" /\ C1_NoBodyTwice) =>
        /\ \A p \in 1..Len(passLog) : \A a \in Created, b \in Created :
               (a # b /\ Count(enabledBodies, a) = 1 /\ Count(enabledBodies, b) = 1
                  /\ (Count(dynamicBodies, a) > 0 \/ Count(dynamicBodies, b) > 0))
               => Cardinality(ExaminedAt(p, a, b)) = 1
        /\ \A n \in 1..Len(pairLog) :
               /\ pairLog[n].pass \in 1..Len(passLog)
               /\ pairLog[n].bodyAId # pairLog[n].bodyBId
               /\ ~(Count(staticBodies, pairLog[n].bodyAId) > 0
                      /\ Count(staticBodies, pairLog[n].bodyBId) > 0)
               /\ Count(disabledBodies, pairLog[n].bodyAId) = 0
               /\ Count(disabledBodies, pairLog[n].bodyBId) = 0

\* C17 witness: a step of two passes over two dynamic bodies and a static one,
\* each body once in the collections, that examined three pairs in each pass
C17_Witness ==
    /\ lastOp.op = "worldStep" /\ C1_NoBodyTwice
    /\ Len(dynamicBodies) = 2 /\ Len(staticBodies) = 1
    /\ Len(passLog) >= 2
    /\ Len(pairLog) = 3 * Len(passLog)

\* the correction vector of the resolver call logged as e
CorrectionOf(e) ==
    scaleVec2(e.info.normal,
        Mul(Div(e.info.depth, Add(bodies[e.bodyAId].mass, bodies[e.bodyBId].mass)),
            Frac(8, 10)))

\* the resolver call logged as e, on two bodies, got past the test of the
\* correction vector: not both inverse masses 0 and the vector not zero
Corrects(e) ==
    /\ e.bodyAId # e.bodyBId
    /\ Truthy(bodies[e.bodyAId].mass) \/ Truthy(bodies[e.bodyBId].mass)
    /\ ~(NumEq(CorrectionOf(e).x, 0) /\ NumEq(CorrectionOf(e).y, 0))

\* the center of body A (sign -1) or B (sign 1) translated by the correction
Corrected(e, center, mass, sign) ==
    addVec2(center, scaleVec2(CorrectionOf(e), Mul(Num(sign), mass)))

\* C18 (as claimed): position correction with a nonzero correction vector
\* uses forced moves: A's center is translated by -correction*invMassA and
\* B's center by +correction*invMassB for every body of nonzero inverse mass,
\* a pinned body included.
C18_ForcedCorrection ==
    AfterStep =>
        \A m \in 1..Len(resolveLog) :
            LET e == resolveLog[m]
            IN Corrects(e) =>
                /\ ~NumEq(bodies[e.bodyAId].mass, 0) =>
                       e.movedA = Corrected(e, e.centerA, bodies[e.bodyAId].mass, -1)
                /\ ~NumEq(bodies[e.bodyBId].mass, 0) =>
                       e.movedB = Corrected(e, e.centerB, bodies[e.bodyBId].mass, 1)

\* whether the non-forced _moveBody translates body b
Movable(b) == ~bodies[b].pinned /\ ~NumEq(bodies[b].mass, 0)

\* C18 (amended): position correction with a nonzero correction vector uses
\* non-forced moves: A's center is translated by -correction*invMassA and B's
\* center by +correction*invMassB for every body of nonzero inverse mass that
\* is not pinned, and a pinned body keeps its center.
C18_NonForcedCorrection ==
    AfterStep =>
        \A m \in 1..Len(resolveLog) :
            LET e == resolveLog[m]
            IN Corrects(e) =>
                /\ e.movedA = IF Movable(e.bodyAId)
                              THEN Corrected(e, e.centerA, bodies[e.bodyAId].mass, -1)
                              ELSE e.centerA
                /\ e.movedB = IF Movable(e.bodyBId)
                              THEN Corrected(e, e.centerB, bodies[e.bodyBId].mass, 1)
                              ELSE e.centerB

\* C18 witness: a position correction between a pinned body of nonzero
\* inverse mass, which kept its center, and a body that was translated
C18_Witness ==
    /\ AfterStep
    /\ \E m \in 1..Len(resolveLog) :
           /\ Corrects(resolveLog[m])
           /\ bodies[resolveLog[m].bodyBId].pinned
           /\ ~NumEq(bodies[resolveLog[m].bodyBId].mass, 0)
           /\ resolveLog[m].movedB = resolveLog[m].centerB
           /\ Movable(resolveLog[m].bodyAId)
           /\ resolveLog[m].movedA # resolveLog[m].centerA

\* the places of jointLog where the correction of joint j was computed for
\* the body id
TakenUp(j, id) ==
    {n \in 1..Len(jointLog) : jointLog[n].joint = j /\ jointLog[n].body = id}

\* the places of jointLog where the correction of joint j was computed
TakenUpAll(j) == {n \in 1..Len(jointLog) : jointLog[n].joint = j}

\* C19 (as claimed): in one worldStep the correction of a joint whose two
\* endpoints are enabled is computed and applied exactly once, also when both
\* endpoints are dynamic bodies. Read for joints with an endpoint in
\* dynamicBodies, each body being once in the collections.
C19_OncePerJoint ==
    (AfterStep /\ C1_NoBodyTwice) =>
        \A j \in 1..Len(joints) :
            (/\ ~Dangling(joints[j])
             /\ (Includes(dynamicBodies, joints[j].bodyA)
                   \/ Includes(dynamicBodies, joints[j].bodyB)))
            => Cardinality(TakenUpAll(j)) = 1

\* C19 (amended): in one worldStep the correction of a joint whose two
\* endpoints are enabled is computed and applied once for each occurrence of
\* an endpoint in dynamicBodies, on that endpoint: twice when both endpoints
\* are distinct dynamic bodies, and never for an endpoint in staticBodies.
C19_OncePerDynamicEnd ==
    AfterStep =>
        \A j \in 1..Len(joints) :
            ~Dangling(joints[j]) =>
                /\ \A id \in {joints[j].bodyA, joints[j].bodyB} :
                       Cardinality(TakenUp(j, id)) = Count(dynamicBodies, id)
                /\ \A n \in TakenUpAll(j) :
                       jointLog[n].body \in {joints[j].bodyA, joints[j].bodyB}

\* C19 witness: a step with a joint between two distinct dynamic bodies that
\* was applied twice, once to each of them, moving both
C19_Witness ==
    /\ AfterStep /\ C1_NoBodyTwice
    /\ \E j \in 1..Len(joints) :
           /\ joints[j].bodyA # joints[j].bodyB
           /\ Count(dynamicBodies, joints[j].bodyA) = 1
           /\ Count(dynamicBodies, joints[j].bodyB) = 1
           /\ Cardinality(TakenUpAll(j)) = 2
           /\ \A n \in TakenUpAll(j) :
                  /\ jointLog[n].acted
                  /\ jointLog[n].after.center # jointLog[n].before.center

\* both components of the vector are numbers other than NaN and +-Infinity
FiniteVec(v) == IsFinite(v.x) /\ IsFinite(v.y)

\* C20: a joint between enabled bodies whose centers are identical (distance
\* 0, as for a joint whose two ids name the same body) leaves the center and
\* the velocity of the body it is applied to at finite values.
C20_DegenerateJointFinite ==
    AfterStep =>
        \A n \in 1..Len(jointLog) :
            (/\ ~Dangling(joints[jointLog[n].joint])
             /\ NumEq(jointLog[n].distance, 0))
            => /\ FiniteVec(jointLog[n].after.center)
               /\ FiniteVec(jointLog[n].after.velocity)

\* the least and the greatest coordinate of the corners of a rectangle
MinX(r) == Min(Min(r.vertices[1].x, r.vertices[2].x), Min(r.vertices[3].x, r.vertices[4].x))
MaxX(r) == Max(Max(r.vertices[1].x, r.vertices[2].x), Max(r.vertices[3].x, r.vertices[4].x))
MinY(r) == Min(Min(r.vertices[1].y, r.vertices[2].y), Min(r.vertices[3].y, r.vertices[4].y))
MaxY(r) == Max(Max(r.vertices[1].y, r.vertices[2].y), Max(r.vertices[3].y, r.vertices[4].y))

\* an unrotated rectangle of positive width and height with integer corners
Unrotated(r) ==
    /\ r.type = RECTANGLE /\ r.angle = 0
    /\ Gt(r.width, 0) /\ Gt(r.height, 0)
    /\ \A k \in 1..4 : /\ IsFinite(r.vertices[k].x) /\ r.vertices[k].x % Q = 0
                       /\ IsFinite(r.vertices[k].y) /\ r.vertices[k].y % Q = 0

\* two unrotated rectangles, not both of inverse mass 0
RectPair(c1, c2) ==
    Unrotated(c1) /\ Unrotated(c2) /\ ~(NumEq(c1.mass, 0) /\ NumEq(c2.mass, 0))

\* the length by which the extents of the two rectangles overlap on x and y
OverlapX(c1, c2) == Sub(Min(MaxX(c1), MaxX(c2)), Max(MinX(c1), MinX(c2)))
OverlapY(c1, c2) == Sub(Min(MaxY(c1), MaxY(c2)), Max(MinY(c1), MinY(c2)))

\* the least distance, over the four axis directions, by which one rectangle
\* must be translated to clear the other
ClearDistance(c1, c2) ==
    Min(Min(Sub(MaxX(c1), MinX(c2)), Sub(MaxX(c2), MinX(c1))),
        Min(Sub(MaxY(c1), MinY(c2)), Sub(MaxY(c2), MinY(c1))))

\* the corners being integers, the clearing distances are integers; a depth
\* within a quarter of a unit of one of them is that distance up to the
\* rounding of the unit normals
RoundOff == Frac(1, 4)

\* C21: for two unrotated rectangles with integer corners, at least one of
\* nonzero inverse mass, testCollision reports a collision exactly when the
\* extents overlap by more than 0 on x and on y; the depth reported is the
\* smaller of the depths of the two passes, which is (up to rounding) the
\* least distance over the four axis directions to clear the other rectangle;
\* and the axis of A is taken only when the depth of A is strictly less than
\* that of B.
C21_RectTest ==
    \A a \in Created, b \in Created :
        RectPair(bodies[a], bodies[b]) =>
            LET tested == testCollision(bodies[a], bodies[b])
                r1 == findAxisLeastPenetration(bodies[a], bodies[b])
                r2 == findAxisLeastPenetration(bodies[b], bodies[a])
            IN /\ tested.hit <=> (Gt(OverlapX(bodies[a], bodies[b]), 0)
                                    /\ Gt(OverlapY(bodies[a], bodies[b]), 0))
               /\ tested.hit =>
                    /\ r1.status /\ r2.status
                    /\ tested.info.depth = Min(r1.info.depth, r2.info.depth)
                    /\ Le(Abs(Sub(tested.info.depth, ClearDistance(bodies[a], bodies[b]))),
                          RoundOff)
                    /\ tested.info.normal =
                           IF Lt(r1.info.depth, r2.info.depth)
                           THEN r1.info.normal
                           ELSE scaleVec2(r2.info.normal, Num(-1))
                    /\ tested.info.start =
                           IF Lt(r1.info.depth, r2.info.depth)
                           THEN subtractVec2(r1.info.start,
                                    scaleVec2(r1.info.normal, r1.info.depth))
                           ELSE r2.info.start

\* C21 witness: two distinct unrotated rectangles, moved by moveBody, that
\* overlap by 1 on x and by 2 on y and are reported with depth 1
C21_Witness ==
    /\ lastOp.op = "moveBody"
    /\ \E a \in Created, b \in Created :
           /\ a # b /\ RectPair(bodies[a], bodies[b])
           /\ OverlapX(bodies[a], bodies[b]) = Num(1)
           /\ OverlapY(bodies[a], bodies[b]) = Num(2)
           /\ testCollision(bodies[a], bodies[b]).hit
           /\ testCollision(bodies[a], bodies[b]).info.depth = Num(1)

\* the collections after disableBody(world, b) followed by enableBody(world, b)
RoundTrip(b) == enableBody(disableBody(Collections, b), b, bodies[b].static)

\* C22: for a body in dynamicBodies or staticBodies, disableBody followed by
\* enableBody leaves each of the three collections with the same set of
\* bodies as before, the body being in the collection its static flag
\* selects and not in disabledBodies.
C22_DisableEnableRoundTrip ==
    \A b \in Created :
        (Includes(dynamicBodies, b) \/ Includes(staticBodies, b)) =>
            /\ Range(RoundTrip(b).dynamicBodies) = Range(dynamicBodies)
            /\ Range(RoundTrip(b).staticBodies) = Range(staticBodies)
            /\ Range(RoundTrip(b).disabledBodies) = Range(disabledBodies)
            /\ Includes(IF bodies[b].static THEN RoundTrip(b).staticBodies
                        ELSE RoundTrip(b).dynamicBodies, b)
            /\ ~Includes(RoundTrip(b).disabledBodies, b)

\* each body occurs at most once in the collections, and an enabled body is
\* in the collection its static flag selects
ListedAsFlagged ==
    /\ C1_NoBodyTwice
    /\ \A b \in Range(dynamicBodies) : ~bodies[b].static
    /\ \A b \in Range(staticBodies) : bodies[b].static

\* the round trip of C22 in the worlds that are ListedAsFlagged
C22_RoundTripWhenListedAsFlagged ==
    ListedAsFlagged => C22_DisableEnableRoundTrip

====
